---- MODULE Spec2Model ----
(***************************************************************************)
(* A model of the scarpet Tokenizer (nextToken and the literal readers it  *)
(* dispatches to) and of the assignment discovery walk (findAssign,        *)
(* findVariableNames).  Characters are UTF-16 code units, written as their *)
(* numeric char codes exactly as the tokenizer compares them.              *)
(***************************************************************************)
EXTENDS Integers, Sequences, FiniteSets, TLC

\* ------------------------------------------------------------- bounds
\* Longest input string explored.
MaxLen == 6

\* The inputs: every string over `chars` of at most MaxLen - short code
\* units, under each of the option settings; an alphabet without `/` (resp.
\* `$`) is scanned under the default allowComments (resp.
\* allowNewLineMarkers) only.
\*   39 '   92 \   110 n   97 a   10 LF   32 SP   47 /   40 (   112 p  105 i
\*   48 0   49 1   50 2    51 3   120 x   88 X    70 F   101 e   69 E
\*   43 +   45 -   46 .    1633 ARABIC-INDIC DIGIT ONE
\*   38 &   124 |  61 =    60 <   62 >    33 !    36 $   35 #
\*   59 ;   44 ,   58 :    126 ~  94 ^    42 *    37 %
\*   41 )   91 [   93 ]    123 {  125 }
Family(chars, short, comments, markers) ==
    [chars |-> chars, short |-> short, comments |-> comments,
     markers |-> markers]

Families ==
    { Family({39, 92, 110, 97}, 1, {TRUE}, {FALSE}),
      Family({39, 92, 10}, 1, {TRUE}, {FALSE}),
      Family({47, 10}, 0, BOOLEAN, {FALSE}),
      Family({47, 10, 97}, 1, BOOLEAN, {FALSE}),
      Family({112, 105, 32, 40}, 2, {TRUE}, {FALSE}),
      Family({97, 32, 10, 40}, 2, {TRUE}, {FALSE}),
      Family({48, 120, 70, 49}, 2, {TRUE}, {FALSE}),
      Family({48, 88, 101}, 2, {TRUE}, {FALSE}),
      Family({50, 51, 101, 43}, 2, {TRUE}, {FALSE}),
      Family({49, 46, 101, 45}, 1, {TRUE}, {FALSE}),
      Family({49, 69, 45}, 2, {TRUE}, {FALSE}),
      Family({49, 1633, 46}, 2, {TRUE}, {FALSE}),
      Family({38, 124, 97}, 2, {TRUE}, {FALSE}),
      Family({61, 60, 62, 33}, 3, {TRUE}, {FALSE}),
      Family({43, 45, 62, 61}, 3, {TRUE}, {FALSE}),
      Family({46, 35, 36}, 2, {TRUE}, BOOLEAN),
      Family({47, 36, 10}, 2, BOOLEAN, BOOLEAN),
      Family({59, 44, 58, 126}, 4, {TRUE}, {FALSE}),
      Family({94, 42, 37, 47}, 4, {TRUE}, {FALSE}),
      Family({40, 41, 91, 93}, 4, {TRUE}, {FALSE}),
      Family({123, 125}, 4, {TRUE}, {FALSE}) }

Strings(f) == UNION { [1..n -> f.chars] : n \in 0..(MaxLen - f.short) }

\* Most nodes in the body of a scope.
MaxNodes == 7

\* The scope bodies: every tree of at most MaxNodes - short nodes built
\* from these leaf kinds (a ListLiteral, MapLiteral or FunctionExpression
\* leaf has no params; "null" is an absent child), wrapper kinds, binary
\* operators and list kinds.
TreeFamily(leaves, wraps, ops, lists, short) ==
    [leaves |-> leaves, wraps |-> wraps, ops |-> ops, lists |-> lists,
     short |-> short]

TreeFamilies ==
    { TreeFamily({"Variable", "Constant", "null"},
                 {"ParenthesisedExpression", "UnaryExpression"},
                 {"=", "+=", "<>", ";"},
                 {"FunctionExpression", "MapLiteral", "ListLiteral"}, 4),
      TreeFamily({"Variable", "ListLiteral"}, {}, {"=", ";"}, {}, 0),
      TreeFamily({"Variable", "Constant"}, {"ParenthesisedExpression"},
                 {"<>", "+"}, {}, 1),
      TreeFamily({"Variable", "Constant"}, {}, {"="},
                 {"FunctionExpression"}, 2),
      TreeFamily({"Variable", "MapLiteral"}, {"UnaryExpression"}, {"+="},
                 {"ListLiteral"}, 3) }

VARIABLES
    input,                \* this.input
    allowComments,        \* this.allowComments
    allowNewLineMarkers,  \* this.allowNewLineMarkers
    pos, row, col,        \* the scan cursor
    errors, warnings,     \* the diagnostic sequences
    pc,                   \* "idle": no call in progress; "readComment":
                          \* a nextToken call is inside readComment's loop
    result,               \* what the last nextToken call returned
    commentStart,         \* readComment's local `pos`
    commentValue,         \* readComment's local `value`
    entry,                \* cursor and number of errors when the call
                          \* in progress (or the last call) was entered
    entered,              \* the offsets at which the calls so far that
                          \* did not return the sentinel were entered
    passed,               \* the offsets at which the passes so far of the
                          \* loop of readComment, in this call, began
    repeats               \* a call was entered, or a pass begun, at an
                          \* offset where an earlier one was

VARIABLES
    root,                 \* the AST: an outer function declaration whose
                          \* body is an inner one
    found,                \* what the last findVariableNames call returned
    foundStack,           \* and the stack findScope had filled for it
    walked                \* `names` after findAssign(scope, names) with
                          \* the inner declaration's body as scope and an
                          \* empty names

VARIABLES
    twin                  \* the fields of a second Tokenizer, constructed
                          \* on the same input with other options

astVars == <<root, found, foundStack, walked>>

tokVars == <<input, allowComments, allowNewLineMarkers, pos, row, col,
             errors, warnings, pc, result, commentStart, commentValue, entry,
             entered, passed, repeats>>

\* ------------------------------------------------------- char classes
\* String.prototype.charCodeAt yields NaN outside the string.
NaN == -1

GetCharAt(p) == IF p >= 0 /\ p < Len(input) THEN input[p + 1] ELSE NaN

\* c | 0x20 on a char code (ToInt32(NaN) is 0).
Or20(c) == IF c = NaN THEN 32 ELSE IF (c \div 32) % 2 = 1 THEN c ELSE c + 32

\* White_Space code points <= 0xFFFF of the Unicode database.
unicodeWhitespace ==
    (9..13) \cup {32, 133, 160, 5760} \cup (8192..8202)
        \cup {8232, 8233, 8239, 8287, 12288}
javaExtraSpace == (9..13) \cup (28..31)
javaNonSpace == {160, 8199, 8239}
javaWhitespace == javaExtraSpace \cup (unicodeWhitespace \ javaNonSpace)

isWhitespace(c) == c \in javaWhitespace
\* Decimal_Number code points: the ASCII digits and (of the others) the
\* Arabic-Indic digits.
isDigit(c) == c \in (48..57) \cup (1632..1641)
isHexDigit(c) == c \in (48..57) \cup (65..70) \cup (97..102)
\* Letter code points: the ASCII letters and (of the others) Latin-1 e-acute.
isLetter(c) == c \in (65..90) \cup (97..122) \cup {233}

\* The reserved constants: null, true, false, pi, euler.
CONSTANTS_ ==
    { <<110, 117, 108, 108>>, <<116, 114, 117, 101>>,
      <<102, 97, 108, 115, 101>>, <<112, 105>>,
      <<101, 117, 108, 101, 114>> }

\* ----------------------------------------------------- values, tokens
NoValue == [k |-> "none"]
StrVal(s) == [k |-> "string", s |-> s]
IntVal(n) == [k |-> "bigint", n |-> n]
\* A floating-point value: (whole + 0.frac) * 10 ** exp, whole a BigInt
\* converted by Number(), frac the fraction digits; the terms are kept, the
\* rounded double is not computed.
FloatVal(whole, frac, exp) ==
    [k |-> "number", whole |-> whole, frac |-> frac, exp |-> exp]

Token(type, start, end, value, hasError) ==
    [type |-> type, start |-> start, end |-> end, value |-> value,
     hasError |-> hasError]
\* nextToken's null, and the result before the first call.
Null == [type |-> "null"]
NotCalled == [type |-> "notCalled"]

Position(p, r, c) == [pos |-> p, row |-> r, col |-> c]
GetPosition(t) == Position(t.pos, t.row, t.col)

\* A variant of error that stores the diagnostic as the one entry of a
\* new array; C11_AppendOnly tells it from Error.
ErrorAlone(t, diagnostic, start, end) ==
    [t EXCEPT !.errors =
        <<[kind |-> diagnostic, start |-> start, end |-> end]>>]

\* this.errors.push(new Diagnostic(diagnostic, {start, end}))
Error(t, diagnostic, start, end) ==
    [t EXCEPT !.errors =
        Append(@, [kind |-> diagnostic, start |-> start, end |-> end])]

ErrorHere(t, diagnostic) ==
    Error(t, diagnostic, GetPosition(t), GetPosition(t))

\* this.input.slice(a, b) for a >= 0
Slice(a, b) ==
    LET e == IF b > Len(input) THEN Len(input) ELSE b
    IN  IF a < e THEN SubSeq(input, a + 1, e) ELSE << >>

\* this.input.indexOf('\n', from) for from >= 0
IndexOfLF(from) ==
    LET hits == { i \in from..(Len(input) - 1) : input[i + 1] = 10 }
    IN  IF hits = {} THEN -1
        ELSE CHOOSE i \in hits : \A j \in hits : i <= j

\* ------------------------------------------------------ skipWhitespace
RECURSIVE skipWhitespace(_)
skipWhitespace(t) ==
    IF t.pos < Len(input) /\ isWhitespace(GetCharAt(t.pos))
    THEN LET c == GetCharAt(t.pos)
         IN  skipWhitespace(
                 IF c = 10
                 THEN [t EXCEPT !.pos = @ + 1, !.row = @ + 1, !.col = 0]
                 ELSE [t EXCEPT !.pos = @ + 1, !.col = @ + 1])
    ELSE t

\* -------------------------------------------------------------- BigInt
\* A BigInt is the sequence of its decimal digits, most significant first,
\* without leading zeros (zero is <<0>>): TLC's own integers are 32 bits
\* wide, the program's are unbounded.
BigZero == <<0>>

RECURSIVE Reverse(_)
Reverse(s) == IF s = << >> THEN << >> ELSE Append(Reverse(Tail(s)), Head(s))

RECURSIVE StripZeros(_)
StripZeros(s) ==
    IF Len(s) > 1 /\ Head(s) = 0 THEN StripZeros(Tail(s)) ELSE s

\* le * m + carry on the digits least significant first.
RECURSIVE MulAddLE(_, _, _)
MulAddLE(le, m, carry) ==
    IF le = << >>
    THEN IF carry = 0 THEN << >>
         ELSE <<carry % 10>> \o MulAddLE(<< >>, m, carry \div 10)
    ELSE LET v == Head(le) * m + carry
         IN  <<v % 10>> \o MulAddLE(Tail(le), m, v \div 10)

\* b * m + d
BigMulAdd(b, m, d) == StripZeros(Reverse(MulAddLE(Reverse(b), m, d)))

\* b * 10n ** BigInt(e)
BigMulPow10(b, e) == IF b = BigZero THEN b ELSE b \o [i \in 1..e |-> 0]

\* a > b
BigGreater(a, b) ==
    \/ Len(a) > Len(b)
    \/ /\ Len(a) = Len(b)
       /\ \E i \in 1..Len(a) :
            /\ a[i] > b[i]
            /\ \A j \in 1..(i - 1) : a[j] = b[j]

\* ---------------------------------------------------------- readNumber
\* Number.MAX_SAFE_INTEGER, 9007199254740991
MAX_SAFE_INTEGER == <<9, 0, 0, 7, 1, 9, 9, 2, 5, 4, 7, 4, 0, 9, 9, 1>>

\* The locals of readNumber, with the cursor and the errors: n.t.  The
\* double `value` is kept as the terms it is computed from: the integer it
\* was converted from (whole) and the fraction digits added to it (frac).
NumAdvance(n) ==
    [n EXCEPT !.t.pos = @ + 1, !.t.col = @ + 1, !.c = GetCharAt(n.t.pos + 1)]

\* The hexadecimal digit loop (do ... while) of lines 117-123.
RECURSIVE HexLoop(_)
HexLoop(n) ==
    LET digit == IF n.c < 58 THEN n.c - 48 ELSE Or20(n.c) - 87
        n1 == NumAdvance([n EXCEPT !.intValue = BigMulAdd(@, 16, digit)])
    IN  IF n1.t.pos < Len(input) /\ isHexDigit(n1.c) THEN HexLoop(n1) ELSE n1

\* Entering fractional mode: decimalDigits = 10, the precision check and
\* value = Number(intValue).
EnterFraction(n, start) ==
    LET t1 == IF BigGreater(n.intValue, MAX_SAFE_INTEGER)
              THEN Error(n.t, "LossOfPrecision", start, GetPosition(n.t))
              ELSE n.t
    IN  [n EXCEPT !.decimalDigits = 10, !.t = t1,
                  !.whole = n.intValue, !.frac = << >>]

\* One pass of the while loop of lines 132-178 up to its last three
\* statements; brk: the loop was left by `break`.
NumberStep(n, start) ==
    IF isDigit(n.c)
    THEN [brk |-> FALSE, n |->
            IF n.c > 127
            THEN [n EXCEPT !.t = ErrorHere(n.t, "UnicodeDigit"),
                           !.isUnicode = TRUE]
            ELSE IF n.isExp
            THEN [n EXCEPT !.exp = @ * 10 + (n.c - 48)]
            ELSE IF n.decimalDigits # 0
            THEN [n EXCEPT !.frac = Append(@, n.c - 48),
                           !.decimalDigits = @ * 10]
            ELSE [n EXCEPT !.intValue = BigMulAdd(@, 10, n.c - 48)]]
    ELSE IF n.decimalDigits = 0 /\ n.c = 46
    THEN [brk |-> FALSE, n |-> EnterFraction(n, start)]
    ELSE IF ~n.isExp /\ Or20(n.c) = 101
    THEN LET n1 == NumAdvance([n EXCEPT !.isExp = TRUE])
         IN  [brk |-> FALSE, n |->
                IF n1.c = 45
                THEN IF n1.decimalDigits = 0
                     THEN EnterFraction([n1 EXCEPT !.expSign = -1], start)
                     ELSE [n1 EXCEPT !.expSign = -1]
                ELSE IF n1.c # 43
                THEN [n1 EXCEPT !.t.pos = @ - 1]
                ELSE n1]
    ELSE [brk |-> TRUE, n |-> n]

RECURSIVE NumberLoop(_, _)
NumberLoop(n, start) ==
    IF n.t.pos < Len(input)
    THEN LET s == NumberStep(n, start)
         IN  IF s.brk THEN n ELSE NumberLoop(NumAdvance(s.n), start)
    ELSE n

\* finalValue, lines 180-191.
\* A variant of FinalValue that leaves the exponent of an integer literal
\* out; C10_IntegerLiterals tells it from FinalValue.
FinalValueWithoutExponent(n) ==
    IF n.decimalDigits # 0
    THEN FloatVal(n.whole, n.frac, IF n.isExp THEN n.exp * n.expSign ELSE 0)
    ELSE IntVal(n.intValue)

FinalValue(n) ==
    IF n.isExp
    THEN IF n.decimalDigits # 0
         THEN FloatVal(n.whole, n.frac, n.exp * n.expSign)
         ELSE IntVal(BigMulPow10(n.intValue, n.exp))
    ELSE IF n.decimalDigits # 0
    THEN FloatVal(n.whole, n.frac, 0)
    ELSE IntVal(n.intValue)

\* readNumber: the cursor t is on a digit.  Yields the cursor after the
\* literal and the token.
\* A variant of readNumber that also steps over the code unit found in
\* place of the first hex digit; C14_MissingHexDigit tells it from
\* readNumber.
readNumberPastMissingDigit(t) ==
    LET start == GetPosition(t)
        n0 == [t |-> t, c |-> GetCharAt(t.pos), intValue |-> BigZero,
               whole |-> BigZero, frac |-> << >>, exp |-> 0, expSign |-> 1,
               decimalDigits |-> 0, isUnicode |-> FALSE, isExp |-> FALSE]
    IN  IF n0.c = 48 /\ Or20(GetCharAt(t.pos + 1)) = 120
        THEN LET t2 == [t EXCEPT !.pos = @ + 2]
                 c2 == GetCharAt(t2.pos)
             IN  IF ~isHexDigit(c2)
                 THEN LET t3 == ErrorHere([t2 EXCEPT !.pos = @ + 1, !.col = @ + 1],
                                          "ExpectedHexDigit")
                      IN  [t |-> t3,
                           tok |-> Token("HexNumber", start, GetPosition(t3),
                                         NoValue, TRUE)]
                 ELSE LET n == HexLoop([n0 EXCEPT !.t = t2, !.c = c2])
                      IN  [t |-> n.t,
                           tok |-> Token("HexNumber", start, GetPosition(n.t),
                                         IntVal(n.intValue), FALSE)]
        ELSE LET n == NumberLoop(n0, start)
             IN  [t |-> n.t,
                  tok |-> Token("Number", start, GetPosition(n.t),
                                IF ~n.isUnicode THEN FinalValue(n) ELSE NoValue,
                                n.isUnicode)]

readNumber(t) ==
    LET start == GetPosition(t)
        n0 == [t |-> t, c |-> GetCharAt(t.pos), intValue |-> BigZero,
               whole |-> BigZero, frac |-> << >>, exp |-> 0, expSign |-> 1,
               decimalDigits |-> 0, isUnicode |-> FALSE, isExp |-> FALSE]
    IN  IF n0.c = 48 /\ Or20(GetCharAt(t.pos + 1)) = 120
        THEN LET t2 == [t EXCEPT !.pos = @ + 2]
                 c2 == GetCharAt(t2.pos)
             IN  IF ~isHexDigit(c2)
                 THEN LET t3 == ErrorHere(t2, "ExpectedHexDigit")
                      IN  [t |-> t3,
                           tok |-> Token("HexNumber", start, GetPosition(t3),
                                         NoValue, TRUE)]
                 ELSE LET n == HexLoop([n0 EXCEPT !.t = t2, !.c = c2])
                      IN  [t |-> n.t,
                           tok |-> Token("HexNumber", start, GetPosition(n.t),
                                         IntVal(n.intValue), FALSE)]
        ELSE LET n == NumberLoop(n0, start)
             IN  [t |-> n.t,
                  tok |-> Token("Number", start, GetPosition(n.t),
                                IF ~n.isUnicode THEN FinalValue(n) ELSE NoValue,
                                n.isUnicode)]

\* ---------------------------------------------------------- readString
\* The locals of readString, with the cursor and the errors: l.t.  One
\* pass of the while loop of lines 210-259; done: the pass returned tok.
RECURSIVE StringLoop(_, _)
StringLoop(l, start) ==
    IF l.c = 39
    THEN \* lines 260-262
         LET t1 == [l.t EXCEPT !.pos = @ + 1, !.col = @ + 1]
         IN  [t |-> t1,
              tok |-> Token("String", start, GetPosition(t1),
                            StrVal(l.value \o Slice(l.start, l.t.pos)), FALSE)]
    ELSE LET isEsc == l.c = 92
             \* lines 213-215
             e1 == IF isEsc
                   THEN [l EXCEPT !.value = @ \o Slice(l.start, l.t.pos),
                                  !.t.pos = @ + 1, !.t.col = @ + 1,
                                  !.start = l.t.pos + 2]
                   ELSE l
             eofInEscape == isEsc /\ e1.t.pos >= Len(input)
             \* lines 226-238
             ec == GetCharAt(e1.t.pos)
             e2 == IF ~isEsc THEN l
                   ELSE IF ec = 110 THEN [e1 EXCEPT !.c = ec, !.value = @ \o <<10>>]
                   ELSE IF ec = 116 THEN [e1 EXCEPT !.c = ec, !.value = @ \o <<9>>]
                   ELSE IF ec = 39 THEN [e1 EXCEPT !.c = ec, !.value = @ \o <<39>>]
                   ELSE IF ec = 92 THEN [e1 EXCEPT !.c = ec, !.value = @ \o <<92>>]
                   ELSE [e1 EXCEPT !.c = ec,
                            !.t = ErrorHere([e1.t EXCEPT !.pos = @ - 1],
                                            "UnknownEscapeSequence")]
             \* lines 240-246
             t3 == [e2.t EXCEPT !.pos = @ + 1,
                                !.col = IF e2.c = 10 THEN 0 ELSE @ + 1,
                                !.row = IF e2.c = 10 THEN @ + 1 ELSE @]
         IN  IF eofInEscape
             THEN LET t4 == ErrorHere(e1.t, "UnexpectedEof")
                  IN  [t |-> t4,
                       tok |-> Token("String", start, GetPosition(t4),
                                     StrVal(e1.value), TRUE)]
             ELSE IF t3.pos >= Len(input)
             THEN LET t4 == ErrorHere(t3, "UnexpectedEof")
                  IN  [t |-> t4,
                       tok |-> Token("String", start, GetPosition(t4),
                                     NoValue, TRUE)]
             ELSE StringLoop([e2 EXCEPT !.t = t3, !.c = GetCharAt(t3.pos)],
                             start)

\* readString: the cursor t is on the opening quote.
readString(t) ==
    LET start == GetPosition(t)
        t1 == [t EXCEPT !.pos = @ + 1, !.col = @ + 1]
    IN  StringLoop([t |-> t1, c |-> GetCharAt(t1.pos), start |-> t1.pos,
                    value |-> << >>], start)

\* ----------------------------------------------------------- readIdent
RECURSIVE IdentLoop(_)
IdentLoop(t) ==
    LET c == GetCharAt(t.pos)
    IN  IF t.pos < Len(input) /\ (isLetter(c) \/ c = 95 \/ isDigit(c))
        THEN IdentLoop([t EXCEPT !.pos = @ + 1, !.col = @ + 1])
        ELSE t

\* A variant of readIdent that looks the name up among the constants
\* before it looks for `(`; C12_IdentKind tells it from readIdent.
readIdentConstantFirst(t) ==
    LET start == GetPosition(t)
        t1 == IdentLoop([t EXCEPT !.pos = @ + 1, !.col = @ + 1])
        value == Slice(start.pos, t1.pos)
        t2 == skipWhitespace(t1)
        tokenType == IF value \in CONSTANTS_ THEN "Constant"
                     ELSE IF GetCharAt(t2.pos) = 40 THEN "Function"
                     ELSE "Variable"
    IN  [t |-> t2,
         tok |-> Token(tokenType, start, GetPosition(t2), StrVal(value), FALSE)]

\* readIdent: the cursor t is on an underscore or a letter.
readIdent(t) ==
    LET start == GetPosition(t)
        t1 == IdentLoop([t EXCEPT !.pos = @ + 1, !.col = @ + 1])
        value == Slice(start.pos, t1.pos)
        t2 == skipWhitespace(t1)
        tokenType == IF GetCharAt(t2.pos) = 40 THEN "Function"
                     ELSE IF value \in CONSTANTS_ THEN "Constant"
                     ELSE "Variable"
    IN  [t |-> t2,
         tok |-> Token(tokenType, start, GetPosition(t2), StrVal(value), FALSE)]

\* ------------------------------------------------- operators, brackets
readEllipsis(t) ==
    LET start == GetPosition(t)
        t1 == [t EXCEPT !.pos = @ + 1, !.col = @ + 1]
        t2 == IF GetCharAt(t1.pos) # 46 \/ GetCharAt(t1.pos + 1) # 46
              THEN ErrorHere(t1, "UnknownOperator")
              ELSE [t1 EXCEPT !.pos = @ + 2]
    IN  [t |-> t2, tok |-> Token("Spread", start, GetPosition(t2), NoValue, FALSE)]

getOneCharToken(t, tokenType) ==
    LET t1 == [t EXCEPT !.pos = @ + 1, !.col = @ + 1]
    IN  [t |-> t1,
         tok |-> Token(tokenType, GetPosition(t), GetPosition(t1), NoValue, FALSE)]

getTwoCharToken(t, tokenType) ==
    LET t1 == [t EXCEPT !.pos = @ + 2, !.col = @ + 2]
    IN  [t |-> t1,
         tok |-> Token(tokenType, GetPosition(t), GetPosition(t1), NoValue, FALSE)]

\* A variant of getBooleanOp that moves past two code units whatever the
\* second one is; C6_BooleanOp tells it from getBooleanOp.
getBooleanOpPastBoth(t, tokenType, char) ==
    LET t1 == IF GetCharAt(t.pos + 1) # char
              THEN ErrorHere(t, "UnknownOperator")
              ELSE t
        t2 == [t1 EXCEPT !.pos = @ + 2, !.col = @ + 2]
    IN  [t |-> t2,
         tok |-> Token(tokenType, GetPosition(t), GetPosition(t2), NoValue, FALSE)]

getBooleanOp(t, tokenType, char) ==
    LET t1 == IF GetCharAt(t.pos + 1) # char
              THEN ErrorHere(t, "UnknownOperator")
              ELSE [t EXCEPT !.pos = @ + 1, !.col = @ + 1]
        t2 == [t1 EXCEPT !.pos = @ + 1, !.col = @ + 1]
    IN  [t |-> t2,
         tok |-> Token(tokenType, GetPosition(t), GetPosition(t2), NoValue, FALSE)]

\* ----------------------------------------------------------- nextToken
\* What a call does until it returns (pc "idle", tok the value returned)
\* or enters the loop of readComment (pc "readComment", start its local
\* `pos`): t is the cursor and the errors at that point.
Returned(r) == [t |-> r.t, tok |-> r.tok, pc |-> "idle", start |-> GetPosition(r.t)]

\* The switch of lines 370-449; OTHER is falling out of the switch.
RECURSIVE nextToken(_)
Dispatch(t) ==
    LET c == GetCharAt(t.pos)
        peek == GetCharAt(t.pos + 1)
        one(type) == Returned(getOneCharToken(t, type))
        two(type) == Returned(getTwoCharToken(t, type))
    IN  CASE c = 39 -> Returned(readString(t))
          [] c = 36 ->
                Returned(getOneCharToken(
                    IF ~t.allowNewLineMarkers
                    THEN ErrorHere(t, "UnexpectedNewLineMarker") ELSE t,
                    "NewLineMarker"))
          [] c = 59 -> one("Semicolon")
          [] c = 44 -> one("Comma")
          [] c = 58 -> one("Colon")
          [] c = 126 -> one("Tilde")
          [] c = 33 -> IF peek = 61 THEN two("NotEquals") ELSE one("Not")
          [] c = 46 -> Returned(readEllipsis(t))
          [] c = 47 ->
                IF peek = 47
                THEN \* readComment up to its loop, lines 291-293
                     LET t1 == IF ~t.allowComments
                               THEN ErrorHere(t, "UnexpectedComment") ELSE t
                     IN  [t |-> t1, tok |-> Null, pc |-> "readComment",
                          start |-> GetPosition(t1)]
                ELSE one("Div")
          [] c = 43 -> IF peek = 61 THEN two("AddAssign") ELSE one("Add")
          [] c = 45 -> IF peek = 62 THEN two("Arrow") ELSE one("Sub")
          [] c = 60 -> IF peek = 62 THEN two("SwapAssign")
                       ELSE IF peek = 61 THEN two("LtEq") ELSE one("Lt")
          [] c = 62 -> IF peek = 61 THEN two("GtEq") ELSE one("Gt")
          [] c = 61 -> IF peek = 61 THEN two("Equals") ELSE one("Assign")
          [] c = 94 -> one("Pow")
          [] c = 42 -> one("Mul")
          [] c = 37 -> one("Mod")
          [] c = 38 -> Returned(getBooleanOp(t, "And", 38))
          [] c = 124 -> Returned(getBooleanOp(t, "Or", 124))
          [] c = 40 -> one("OpenParen")
          [] c = 41 -> one("CloseParen")
          [] c = 91 -> one("OpenBrack")
          [] c = 93 -> one("CloseBrack")
          [] c = 123 -> one("OpenBrace")
          [] c = 125 -> one("CloseBrace")
          [] OTHER ->
                IF isDigit(c) THEN Returned(readNumber(t))
                ELSE IF c = 95 \/ isLetter(c) THEN Returned(readIdent(t))
                ELSE nextToken([ErrorHere(t, "UnexpectedToken")
                                    EXCEPT !.pos = @ + 1, !.col = @ + 1])

\* A variant of nextToken that, new line markers not being allowed, logs
\* `$` and steps over it as over an unexpected character;
\* C21_OptionsOnlyDiagnostics tells it from nextToken.
nextTokenDroppingMarker(t) ==
    LET t1 == skipWhitespace(t)
    IN  IF t1.pos >= Len(input)
        THEN Returned([t |-> t1, tok |-> Null])
        ELSE IF GetCharAt(t1.pos) = 36 /\ ~t1.allowNewLineMarkers
        THEN nextToken([ErrorHere(t1, "UnexpectedNewLineMarker")
                            EXCEPT !.pos = @ + 1, !.col = @ + 1])
        ELSE Dispatch(t1)

\* A variant of nextToken that logs a diagnostic when it finds the input
\* at its end; C20_SentinelAbsorbing tells it from nextToken.
nextTokenLoggingEnd(t) ==
    LET t1 == skipWhitespace(t)
    IN  IF t1.pos >= Len(input)
        THEN Returned([t |-> ErrorHere(t1, "UnexpectedEof"), tok |-> Null])
        ELSE Dispatch(t1)

nextToken(t) ==
    LET t1 == skipWhitespace(t)
    IN  IF t1.pos >= Len(input)
        THEN Returned([t |-> t1, tok |-> Null])
        ELSE Dispatch(t1)

\* ------------------------------------------------------------- actions
Cursor ==
    [pos |-> pos, row |-> row, col |-> col, errors |-> errors,
     allowComments |-> allowComments,
     allowNewLineMarkers |-> allowNewLineMarkers]

\* options.errors and options.warnings: the caller's arrays, which the
\* constructor keeps (this.errors = options.errors || []), empty or
\* holding what an earlier session of the caller left in them.
EarlierDiagnostic ==
    [kind |-> "Earlier", start |-> Position(0, 0, 0), end |-> Position(0, 0, 0)]
OptionsDiagnostics == { << >>, <<EarlierDiagnostic>> }

\* new Tokenizer(input, options)
InitTokenizer ==
    /\ \E f \in Families :
         /\ input \in Strings(f)
         /\ allowComments \in f.comments
         /\ allowNewLineMarkers \in f.markers
    /\ pos = 0 /\ row = 0 /\ col = 0
    /\ errors \in OptionsDiagnostics /\ warnings = errors
    /\ pc = "idle"
    /\ result = NotCalled
    /\ commentStart = Position(0, 0, 0)
    /\ commentValue = << >>
    /\ entry = [pos |-> 0, row |-> 0, col |-> 0, nerrors |-> Len(errors)]
    /\ entered = {} /\ passed = {} /\ repeats = FALSE

\* The scanner is deterministic and where it goes on from depends on the
\* input and the cursor offset alone: a call entered at an offset where an
\* earlier call, returning a token, was entered returns that token again
\* and is followed by the same calls, without end, and so with a pass of
\* the loop of readComment begun where an earlier pass of the call began.
\* The scan is followed until it is found to repeat.

\* A call of nextToken(), up to its return or to the loop of readComment.
NextToken ==
    /\ pc = "idle"
    /\ ~repeats
    /\ LET r == nextToken(Cursor)
           atEnd == r.pc = "idle" /\ r.tok = Null
       IN  /\ entered' = IF atEnd THEN entered ELSE entered \cup {pos}
           /\ repeats' = (~atEnd /\ pos \in entered)
           /\ passed' = {}
           /\ pos' = r.t.pos
           /\ row' = r.t.row
           /\ col' = r.t.col
           /\ errors' = r.t.errors
           /\ pc' = r.pc
           /\ result' = IF r.pc = "idle" THEN r.tok ELSE result
           /\ commentStart' = r.start
           /\ commentValue' = << >>
    /\ entry' = [pos |-> pos, row |-> row, col |-> col, nerrors |-> Len(errors)]
    /\ UNCHANGED <<input, allowComments, allowNewLineMarkers, warnings>>

\* One pass of the do ... while loop of readComment (lines 294-303) and,
\* when the loop ends, the return of the Comment token (lines 304-305),
\* on the fields s of a Tokenizer in that loop.
readCommentPass(s) ==
    LET index == IndexOfLF(s.pos) + 1
        value == s.commentValue \o Slice(s.pos, index)
        again == /\ index < Len(input)
                 /\ GetCharAt(index) = 47
                 /\ GetCharAt(index + 1) = 47
    IN  IF again
        THEN [pos |-> index, row |-> s.row + 1, col |-> s.col,
              commentValue |-> value, pc |-> "readComment",
              result |-> s.result]
        ELSE [pos |-> index, row |-> s.row + 1, col |-> 0,
              commentValue |-> value, pc |-> "idle",
              result |-> Token("Comment", s.commentStart,
                               Position(index, s.row + 1, 0),
                               StrVal(value), FALSE)]

ReadCommentLoop ==
    /\ pc = "readComment"
    /\ ~repeats
    /\ passed' = passed \cup {pos}
    /\ repeats' = (pos \in passed)
    /\ LET c == readCommentPass([pos |-> pos, row |-> row, col |-> col,
                                 result |-> result,
                                 commentStart |-> commentStart,
                                 commentValue |-> commentValue])
       IN  /\ pos' = c.pos
           /\ row' = c.row
           /\ col' = c.col
           /\ commentValue' = c.commentValue
           /\ pc' = c.pc
           /\ result' = c.result
    /\ UNCHANGED <<input, allowComments, allowNewLineMarkers, errors,
                   warnings, commentStart, entry, entered>>

\* ------------------------------------------------- a second Tokenizer
NoTwin == [pc |-> "none"]

\* new Tokenizer(input, {allowComments, allowNewLineMarkers, errors})
NewTwin(comments, markers, diagnostics) ==
    [allowComments |-> comments, allowNewLineMarkers |-> markers,
     pos |-> 0, row |-> 0, col |-> 0, errors |-> diagnostics,
     pc |-> "idle", result |-> NotCalled,
     commentStart |-> Position(0, 0, 0), commentValue |-> << >>]

\* The fields of the Tokenizer w after its next step: a call of
\* nextToken() up to its return or to the loop of readComment, or a pass
\* of that loop, as in NextToken and ReadCommentLoop.
TwinStep(w) ==
    IF w.pc = "idle"
    THEN LET r == nextToken([pos |-> w.pos, row |-> w.row, col |-> w.col,
                             errors |-> w.errors,
                             allowComments |-> w.allowComments,
                             allowNewLineMarkers |-> w.allowNewLineMarkers])
         IN  [w EXCEPT !.pos = r.t.pos, !.row = r.t.row, !.col = r.t.col,
                       !.errors = r.t.errors, !.pc = r.pc,
                       !.result = IF r.pc = "idle" THEN r.tok ELSE @,
                       !.commentStart = r.start, !.commentValue = << >>]
    ELSE LET c == readCommentPass(w)
         IN  [w EXCEPT !.pos = c.pos, !.row = c.row, !.col = c.col,
                       !.commentValue = c.commentValue, !.pc = c.pc,
                       !.result = c.result]

\* Two Tokenizers on one input, under options that differ.
InitTwins ==
    /\ InitTokenizer
    /\ \E f \in Families :
         /\ input \in Strings(f)
         /\ allowComments \in f.comments
         /\ allowNewLineMarkers \in f.markers
         /\ \E c \in f.comments, m \in f.markers :
              /\ <<c, m>> # <<allowComments, allowNewLineMarkers>>
              /\ twin = NewTwin(c, m, errors)

\* ------------------------------------------------------------ the AST
\* A node is a record of its kind, its fields and id, the path of child
\* indices from the root to it: two nodes are the same object exactly when
\* their ids agree.
NullNode == [kind |-> "null"]

Leaf(kind, id) ==
    CASE kind = "null" -> NullNode
      [] kind = "Variable" -> [kind |-> kind, id |-> id, name |-> "x"]
      [] kind \in {"FunctionExpression", "MapLiteral", "ListLiteral"} ->
            [kind |-> kind, id |-> id, params |-> << >>]
      [] OTHER -> [kind |-> kind, id |-> id]

RECURSIVE Trees(_, _, _), Forests(_, _, _, _)
\* The trees of exactly n nodes whose root has the given id.
Trees(f, n, id) ==
    IF n = 1 THEN { Leaf(k, id) : k \in f.leaves }
    ELSE { [kind |-> k, id |-> id, value |-> v] :
                k \in f.wraps, v \in Trees(f, n - 1, Append(id, 1)) }
         \cup UNION { { [kind |-> "BinaryExpression", id |-> id,
                         operator |-> o, lvalue |-> l, rvalue |-> r] :
                            o \in f.ops,
                            l \in Trees(f, a, Append(id, 1)),
                            r \in Trees(f, n - 1 - a, Append(id, 2)) } :
                      a \in 1..(n - 2) }
         \cup { [kind |-> k, id |-> id, params |-> ps] :
                    k \in f.lists, ps \in Forests(f, n - 1, id, 1) }

\* The sequences of trees of n nodes in all, children i, i + 1, ... of id.
Forests(f, n, id, i) ==
    IF n = 0 THEN { << >> }
    ELSE UNION { { <<t>> \o rest :
                        t \in Trees(f, m, Append(id, i)),
                        rest \in Forests(f, n - m, id, i + 1) } :
                 m \in 1..n }

\* x = 1; [a, b] = f(); y = (a, b)   as the parser nests it:
\* ((x = 1) ; ([a, b] = f())) ; (y = (a, b))
Var(id, name) == [kind |-> "Variable", id |-> id, name |-> name]
Bin(id, o, l, r) ==
    [kind |-> "BinaryExpression", id |-> id, operator |-> o,
     lvalue |-> l, rvalue |-> r]
ExampleListAssign ==
    Bin(<<1, 1, 1, 2>>, "=",
        [kind |-> "ListLiteral", id |-> <<1, 1, 1, 2, 1>>,
         params |-> << Var(<<1, 1, 1, 2, 1, 1>>, "a"),
                       Var(<<1, 1, 1, 2, 1, 2>>, "b") >>],
        [kind |-> "FunctionCall", id |-> <<1, 1, 1, 2, 2>>])
ExampleBody ==
    Bin(<<1, 1>>, ";",
        Bin(<<1, 1, 1>>, ";",
            Bin(<<1, 1, 1, 1>>, "=", Var(<<1, 1, 1, 1, 1>>, "x"),
                [kind |-> "Constant", id |-> <<1, 1, 1, 1, 2>>]),
            ExampleListAssign),
        Bin(<<1, 1, 2>>, "=", Var(<<1, 1, 2, 1>>, "y"),
            [kind |-> "ParenthesisedExpression", id |-> <<1, 1, 2, 2>>,
             value |-> Bin(<<1, 1, 2, 2, 1>>, ",",
                           Var(<<1, 1, 2, 2, 1, 1>>, "a"),
                           Var(<<1, 1, 2, 2, 1, 2>>, "b"))]))

\* The function expression of parameters  p = 1, [a, b] = l
ExampleFunction ==
    [kind |-> "FunctionExpression", id |-> <<1, 1>>,
     params |-> <<
        Bin(<<1, 1, 1>>, "=", Var(<<1, 1, 1, 1>>, "p"),
            [kind |-> "Constant", id |-> <<1, 1, 1, 2>>]),
        Bin(<<1, 1, 2>>, "=",
            [kind |-> "ListLiteral", id |-> <<1, 1, 2, 1>>,
             params |-> << Var(<<1, 1, 2, 1, 1>>, "a"),
                           Var(<<1, 1, 2, 1, 2>>, "b") >>],
            Var(<<1, 1, 2, 2>>, "l")) >>]

Bodies ==
    UNION { UNION { Trees(f, n, <<1, 1>>) : n \in 1..(MaxNodes - f.short) } :
            f \in TreeFamilies }
        \cup {ExampleBody, ExampleFunction}

FunctionDeclaration(id, body) ==
    [kind |-> "FunctionDeclaration", id |-> id, body |-> body]

\* findScope(root, node, stack): stack becomes the function declarations
\* enclosing node, the nearest first.  node is given by its depth: 0 the
\* root, 1 the inner declaration, 2 a node of the inner declaration's body.
findScope(r, nodeDepth) ==
    CASE nodeDepth = 0 -> << >>
      [] nodeDepth = 1 -> <<r>>
      [] OTHER -> <<r.body, r>>

RECURSIVE resolveParenthesised(_)
resolveParenthesised(node) ==
    IF node.kind = "ParenthesisedExpression"
    THEN resolveParenthesised(node.value)
    ELSE node

\* findAssign(scope, names): the names array after the call.
RECURSIVE findAssign(_, _), findAssignParams(_, _, _)

\* A variant of findAssign that goes on into the right-hand side of an
\* assignment to a plain variable; C17_PlainAssignmentSkipped tells it
\* from findAssign.
findAssignIntoRvalue(scope, names) ==
    CASE scope.kind = "BinaryExpression" ->
            IF scope.operator = "=" \/ scope.operator = "+="
                    \/ scope.operator = "<>"
            THEN LET variable == resolveParenthesised(scope.lvalue)
                 IN  IF variable.kind # "Variable"
                     THEN findAssign(scope.rvalue, Append(names, scope))
                     ELSE findAssign(scope.rvalue, names)
            ELSE findAssign(scope.rvalue, findAssign(scope.lvalue, names))
      [] scope.kind \in {"ParenthesisedExpression", "UnaryExpression"} ->
            findAssign(scope.value, names)
      [] scope.kind \in {"FunctionExpression", "MapLiteral", "ListLiteral"} ->
            findAssignParams(scope.params, 1, names)
      [] OTHER -> names

\* A variant of findAssign that records an assignment after it has walked
\* its right-hand side; C18_PreOrder tells it from findAssign.
findAssignPostOrder(scope, names) ==
    CASE scope.kind = "BinaryExpression" ->
            IF scope.operator = "=" \/ scope.operator = "+="
                    \/ scope.operator = "<>"
            THEN LET variable == resolveParenthesised(scope.lvalue)
                 IN  IF variable.kind # "Variable"
                     THEN Append(findAssign(scope.rvalue, names), scope)
                     ELSE names
            ELSE findAssign(scope.rvalue, findAssign(scope.lvalue, names))
      [] scope.kind \in {"ParenthesisedExpression", "UnaryExpression"} ->
            findAssign(scope.value, names)
      [] scope.kind \in {"FunctionExpression", "MapLiteral", "ListLiteral"} ->
            findAssignParams(scope.params, 1, names)
      [] OTHER -> names

findAssign(scope, names) ==
    CASE scope.kind = "BinaryExpression" ->
            IF scope.operator = "=" \/ scope.operator = "+="
                    \/ scope.operator = "<>"
            THEN LET variable == resolveParenthesised(scope.lvalue)
                 IN  IF variable.kind # "Variable"
                     THEN findAssign(scope.rvalue, Append(names, scope))
                     ELSE names
            ELSE findAssign(scope.rvalue, findAssign(scope.lvalue, names))
      [] scope.kind \in {"ParenthesisedExpression", "UnaryExpression"} ->
            findAssign(scope.value, names)
      [] scope.kind \in {"FunctionExpression", "MapLiteral", "ListLiteral"} ->
            findAssignParams(scope.params, 1, names)
      [] OTHER -> names

\* A variant of the for loop that looks at the first param alone;
\* C9_FunctionParams tells it from findAssignParams.
findAssignFirstParam(params, i, names) ==
    IF i > Len(params) THEN names ELSE findAssign(params[i], names)

\* The for loop of lines 28-30, from the i-th param on.
findAssignParams(params, i, names) ==
    IF i > Len(params) THEN names
    ELSE findAssignParams(params, i + 1, findAssign(params[i], names))

\* A variant of findVariableNames that, finding no enclosing declaration,
\* walks the innermost body under the root; C15_NoScope tells it from
\* findVariableNames.
findVariableNamesFallback(r, nodeDepth) ==
    LET stack == findScope(r, nodeDepth)
    IN  IF Len(stack) # 0 THEN findAssign(stack[1], << >>)
        ELSE findAssign(r.body.body, << >>)

\* findVariableNames(root, node)
findVariableNames(r, nodeDepth) ==
    LET stack == findScope(r, nodeDepth)
    IN  IF Len(stack) # 0 THEN findAssign(stack[1], << >>) ELSE << >>

NoNames == <<[kind |-> "notCalled"]>>

InitAst ==
    /\ root \in { FunctionDeclaration(<< >>, FunctionDeclaration(<<1>>, b)) :
                    b \in Bodies }
    /\ found = NoNames
    /\ foundStack = << >>
    /\ walked = NoNames

\* A call findVariableNames(root, node).
FindVariableNames ==
    /\ \E nodeDepth \in 0..2 :
         /\ found' = findVariableNames(root, nodeDepth)
         /\ foundStack' = findScope(root, nodeDepth)
    /\ UNCHANGED <<root, walked>>

\* A variant of the walk that, at an assignment, stores the unwrapped
\* lvalue back into the node; C16_NoSideEffect tells it from FindAssign.
FindAssignUnwrapping ==
    /\ walked' = findAssign(root.body.body, << >>)
    /\ root' = [root EXCEPT !.body.body =
                    IF @.kind = "BinaryExpression"
                         /\ @.operator \in {"=", "+=", "<>"}
                    THEN [@ EXCEPT !.lvalue = resolveParenthesised(@)]
                    ELSE @]
    /\ UNCHANGED <<found, foundStack>>

\* A call findAssign(scope, names): the walk of the body of the inner
\* declaration, collecting into an empty names.
FindAssign ==
    /\ walked' = findAssign(root.body.body, << >>)
    /\ UNCHANGED <<root, found, foundStack>>

\* -------------------------------------------------------- specifications
\* No AST beside the Tokenizer, no Tokenizer beside the AST.
NoAst ==
    /\ root = NullNode /\ found = NoNames /\ foundStack = << >>
    /\ walked = NoNames

NoTokenizer ==
    /\ input = << >> /\ allowComments = TRUE /\ allowNewLineMarkers = FALSE
    /\ pos = 0 /\ row = 0 /\ col = 0 /\ errors = << >> /\ warnings = << >>
    /\ pc = "idle" /\ result = NotCalled
    /\ commentStart = Position(0, 0, 0) /\ commentValue = << >>
    /\ entry = [pos |-> 0, row |-> 0, col |-> 0, nerrors |-> 0]
    /\ entered = {} /\ passed = {} /\ repeats = FALSE

vars == <<tokVars, astVars, twin>>

Init == InitTokenizer /\ NoAst /\ twin = NoTwin

Next ==
    \/ NextToken /\ UNCHANGED <<astVars, twin>>
    \/ ReadCommentLoop /\ UNCHANGED <<astVars, twin>>

\* The Tokenizer
Spec == Init /\ [][Next]_vars

AstInit == InitAst /\ NoTokenizer /\ twin = NoTwin

AstNext ==
    \/ FindVariableNames /\ UNCHANGED <<tokVars, twin>>
    \/ FindAssign /\ UNCHANGED <<tokVars, twin>>

\* Assignment discovery
AstSpec == AstInit /\ [][AstNext]_vars

TwinInit == InitTwins /\ NoAst

\* The caller takes the two Tokenizers through their calls side by side.
TwinNext ==
    \/ NextToken /\ twin' = TwinStep(twin) /\ UNCHANGED astVars
    \/ ReadCommentLoop /\ twin' = TwinStep(twin) /\ UNCHANGED astVars

\* Two Tokenizers on one input
TwinSpec == TwinInit /\ [][TwinNext]_vars

\* ============================================================== claims
IsToken(r) == r.type \notin {"null", "notCalled"}
\* The diagnostics appended by the last call.
NewErrors == SubSeq(errors, entry.nerrors + 1, Len(errors))
CountKind(seq, kind) == Cardinality({ i \in DOMAIN seq : seq[i].kind = kind })
InSeq(x, seq) == \E i \in DOMAIN seq : seq[i] = x

\* C1: on every input and under every option setting each nextToken call
\* returns, and a caller who goes on calling nextToken is returned the
\* end-of-input sentinel after finitely many calls: no scan repeats, that
\* is, comes back to an offset from which it has gone on before.
C1_ScanEnds == ~repeats

\* C2: when findScope yields a non-empty stack, findVariableNames returns
\* what the walk of the body of the first declaration on the stack
\* collects; for the body  x = 1; [a, b] = f(); y = (a, b)  that is the
\* sequence of the one node  [a, b] = f().
C2_WalksInnermostBody ==
    (found # NoNames /\ Len(foundStack) # 0) =>
        /\ found = findAssign(foundStack[1].body, << >>)
        /\ foundStack[1].body = ExampleBody => found = <<ExampleListAssign>>

\* Whether the string literal whose text starts at offset i (after its
\* opening quote) meets its closing quote before the end of the input.
RECURSIVE StringCloses(_)
StringCloses(i) ==
    IF i >= Len(input) THEN FALSE
    ELSE IF input[i + 1] = 92 THEN StringCloses(i + 2)
    ELSE IF input[i + 1] = 39 THEN TRUE
    ELSE StringCloses(i + 1)

\* C3: a string literal that reaches the end of the input before its
\* closing quote, whatever precedes the end, is returned as a String token
\* with no value and the error flag set, and exactly one UnexpectedEof
\* diagnostic is appended for it.
C3_UnterminatedString ==
    (pc = "idle" /\ result.type = "String"
        /\ ~StringCloses(result.start.pos + 1)) =>
        /\ result.value = NoValue
        /\ result.hasError
        /\ CountKind(NewErrors, "UnexpectedEof") = 1

\* C4: the cursor offset always lies between 0 and the input length, no
\* returned token ends beyond the input length, and when the sentinel is
\* returned the cursor offset is the input length.
C4_CursorInBounds ==
    /\ 0 <= pos /\ pos <= Len(input)
    /\ (pc = "idle" /\ IsToken(result)) => result.end.pos <= Len(input)
    /\ (pc = "idle" /\ result = Null) => pos = Len(input)

\* C5: every returned token has start.offset <= end.offset, and a call
\* never moves the cursor offset or row backwards: the token starts at or
\* after the cursor the call found, the end of the token before it.
C5_Monotonic ==
    /\ (pc = "idle" /\ IsToken(result)) =>
            /\ result.start.pos <= result.end.pos
            /\ entry.pos <= result.start.pos
    /\ pc = "idle" => entry.pos <= pos /\ entry.row <= row

\* The last call returned an And or Or token; the character it stands for;
\* whether the code unit after its first is another one.
BooleanOpReturned == pc = "idle" /\ result.type \in {"And", "Or"}
BooleanOpChar == IF result.type = "And" THEN 38 ELSE 124
BooleanOpMismatch == GetCharAt(result.start.pos + 1) # BooleanOpChar

\* C6 as stated: on `&` or `|` followed by another code unit one
\* UnknownOperator diagnostic is appended, the And or Or token is returned
\* and the cursor has advanced by 2; followed by the same character, the
\* token spans both code units and no diagnostic is appended.
C6_AdvancesPastBoth ==
    BooleanOpReturned =>
        /\ pos = result.end.pos
        /\ result.end.pos = result.start.pos + 2
        /\ CountKind(NewErrors, "UnknownOperator") =
              IF BooleanOpMismatch THEN 1 ELSE 0

\* C6 as amended: on `&` or `|` followed by another code unit (or by the
\* end of the input) one UnknownOperator diagnostic is appended, the And
\* or Or token is returned and the cursor has advanced by 1, past the
\* operator character alone; followed by the same character, the token
\* spans both code units and no diagnostic is appended.
C6_BooleanOp ==
    BooleanOpReturned =>
        /\ pos = result.end.pos
        /\ result.end.pos =
              result.start.pos + (IF BooleanOpMismatch THEN 1 ELSE 2)
        /\ CountKind(NewErrors, "UnknownOperator") =
              IF BooleanOpMismatch THEN 1 ELSE 0

\* `&` before `a`: the token And over the one code unit, with its diagnostic.
C6_Witness ==
    /\ BooleanOpReturned /\ result.type = "And"
    /\ GetCharAt(result.start.pos + 1) = 97
    /\ result.end.pos = result.start.pos + 1
    /\ CountKind(NewErrors, "UnknownOperator") = 1

\* What the text of a string literal from offset i up to offset j stands
\* for: \n, \t, \' and \\ for a line feed, a tab, a quote and a backslash,
\* a backslash before any other character for that character.
RECURSIVE Unescaped(_, _)
Unescaped(i, j) ==
    IF i >= j THEN << >>
    ELSE IF input[i + 1] = 92 /\ i + 1 < j
    THEN LET c == input[i + 2]
         IN  << CASE c = 110 -> 10 [] c = 116 -> 9 [] OTHER -> c >>
                \o Unescaped(i + 2, j)
    ELSE <<input[i + 1]>> \o Unescaped(i + 1, j)

\* The offsets in i..j-1 of the backslashes that start an unknown escape.
RECURSIVE UnknownEscapes(_, _)
UnknownEscapes(i, j) ==
    IF i + 1 >= j THEN {}
    ELSE IF input[i + 1] = 92
    THEN (IF input[i + 2] \in {110, 116, 39, 92} THEN {} ELSE {i})
            \cup UnknownEscapes(i + 2, j)
    ELSE UnknownEscapes(i + 1, j)

\* C7: in a terminated string literal each backslash before a character
\* other than n, t, ' and \ appends one UnknownEscapeSequence diagnostic
\* and is left out of the value, the character after it standing in the
\* value at that place; \n, \t, \' and \\ decode to a line feed, a tab, a
\* quote and a backslash.
C7_Escapes ==
    (pc = "idle" /\ result.type = "String" /\ ~result.hasError) =>
        /\ result.value =
              StrVal(Unescaped(result.start.pos + 1, result.end.pos - 1))
        /\ CountKind(NewErrors, "UnknownEscapeSequence") =
              Cardinality(UnknownEscapes(result.start.pos + 1,
                                         result.end.pos - 1))

\* C8: the whitespace skipped to look ahead for `(` is not part of an
\* identifier token: the token ends right after the last identifier
\* character, end.offset - start.offset being the length of its value.
C8_IdentSpan ==
    (pc = "idle" /\ result.type \in {"Function", "Constant", "Variable"}) =>
        result.end.pos - result.start.pos = Len(result.value.s)

\* The scope walked by findAssign, once walked; a node that is an
\* assignment (=, += or <>).
Scope == root.body.body
IsAssignment(node) ==
    node.kind = "BinaryExpression" /\ node.operator \in {"=", "+=", "<>"}

\* C9 as stated: the walk of a FunctionExpression goes into every element
\* of its parameter list, and every  p = default  parameter is in the
\* result.
C9_DefaultsRecorded ==
    (walked # NoNames /\ Scope.kind = "FunctionExpression") =>
        \A i \in DOMAIN Scope.params :
            (Scope.params[i].kind = "BinaryExpression"
                /\ Scope.params[i].operator = "=") =>
                InSeq(Scope.params[i], walked)

\* C9 as amended: the walk of a FunctionExpression goes into every element
\* of its parameter list, and a parameter that is an assignment (=, += or
\* <>) is in the result of the walk exactly when its lvalue, parentheses
\* unwrapped, is not a Variable: a  p = default  parameter with a plain
\* variable p is not recorded.
C9_FunctionParams ==
    (walked # NoNames /\ Scope.kind = "FunctionExpression") =>
        \A i \in DOMAIN Scope.params :
            IsAssignment(Scope.params[i]) =>
                (InSeq(Scope.params[i], walked) <=>
                    resolveParenthesised(Scope.params[i].lvalue).kind
                        # "Variable")

\* A function expression of two parameters, a plain  p = default  that is
\* not in the result and after it one whose lvalue is no Variable, which is.
C9_Witness ==
    /\ walked # NoNames /\ Scope.kind = "FunctionExpression"
    /\ Len(Scope.params) = 2
    /\ IsAssignment(Scope.params[1])
    /\ Scope.params[1].lvalue.kind = "Variable"
    /\ IsAssignment(Scope.params[2])
    /\ walked = <<Scope.params[2]>>

\* The number a sequence of digit values stands for in the given base; the
\* decimal digits of a natural number.
RECURSIVE ValueOf(_, _)
ValueOf(digits, base) ==
    IF digits = << >> THEN 0
    ELSE digits[Len(digits)]
            + base * ValueOf(SubSeq(digits, 1, Len(digits) - 1), base)
RECURSIVE Numeral(_)
Numeral(n) == IF n < 10 THEN <<n>> ELSE Append(Numeral(n \div 10), n % 10)

DigitValue(c) ==
    IF c \in 48..57 THEN c - 48
    ELSE IF c \in 65..70 THEN c - 55
    ELSE c - 87
DigitValues(text) == [i \in DOMAIN text |-> DigitValue(text[i])]
AllIn(text, set) == \A i \in DOMAIN text : text[i] \in set

\* The text of the token returned, and the offset in it of its e or E
\* (0: there is none).
TokenText == Slice(result.start.pos, result.end.pos)
ExpMark(text) ==
    IF \E i \in DOMAIN text : text[i] \in {101, 69}
    THEN CHOOSE i \in DOMAIN text :
            /\ text[i] \in {101, 69}
            /\ \A j \in 1..(i - 1) : text[j] \notin {101, 69}
    ELSE 0

\* The forms of integer literal: digits; 0x or 0X and hex digits; digits,
\* e or E, an optional +, digits.
IsDecimalText(text) == text # << >> /\ AllIn(text, 48..57)
IsHexText(text) ==
    /\ Len(text) >= 3 /\ text[1] = 48 /\ text[2] \in {120, 88}
    /\ AllIn(SubSeq(text, 3, Len(text)),
             (48..57) \cup (65..70) \cup (97..102))
ExpDigitsFrom(text) ==
    LET e == ExpMark(text)
    IN  IF e < Len(text) /\ text[e + 1] = 43 THEN e + 2 ELSE e + 1
IsExponentText(text) ==
    LET e == ExpMark(text)
    IN  /\ e > 1
        /\ AllIn(SubSeq(text, 1, e - 1), 48..57)
        /\ ExpDigitsFrom(text) <= Len(text)
        /\ AllIn(SubSeq(text, ExpDigitsFrom(text), Len(text)), 48..57)
\* The decimal digits of mantissa * 10 ^ exponent.
ExponentNumeral(text) ==
    LET e == ExpMark(text)
        m == ValueOf(DigitValues(SubSeq(text, 1, e - 1)), 10)
        x == ValueOf(DigitValues(SubSeq(text, ExpDigitsFrom(text),
                                        Len(text))), 10)
    IN  IF m = 0 THEN <<0>> ELSE Numeral(m) \o [i \in 1..x |-> 0]

\* C10: integer literals are decoded exactly and without a diagnostic: a
\* run of ASCII digits is a Number token whose value is its base-10
\* integer, 0x or 0X before hex digits a HexNumber token whose value is
\* their base-16 integer, and digits, e or E, an optional + and digits
\* (no `.`, no `-`) a Number token whose value is the mantissa times 10 to
\* the exponent.
C10_IntegerLiterals ==
    (pc = "idle" /\ result.type \in {"Number", "HexNumber"}) =>
        LET text == TokenText
            exact(numeral) ==
                /\ result.value = IntVal(numeral)
                /\ ~result.hasError
                /\ NewErrors = << >>
        IN  /\ (result.type = "Number" /\ IsDecimalText(text)) =>
                    exact(Numeral(ValueOf(DigitValues(text), 10)))
            /\ (result.type = "HexNumber" /\ IsHexText(text)) =>
                    exact(Numeral(ValueOf(
                        DigitValues(SubSeq(text, 3, Len(text))), 16)))
            /\ (result.type = "Number" /\ IsExponentText(text)) =>
                    exact(ExponentNumeral(text))
            /\ IsHexText(text) => result.type = "HexNumber"

\* 2e+3 returned as the integer 2000.
C10_Witness ==
    /\ pc = "idle" /\ result.type = "Number"
    /\ TokenText = <<50, 101, 43, 51>>
    /\ result.value = IntVal(<<2, 0, 0, 0>>)
    /\ NewErrors = << >>

\* Whether the sequence s begins with the sequence p.
IsPrefix(p, s) == Len(p) <= Len(s) /\ SubSeq(s, 1, Len(p)) = p

\* C11: the diagnostic sequences are append-only: after any step of a
\* nextToken call the errors sequence begins with what it held before, no
\* entry removed, reordered or modified, and the warnings sequence is
\* neither cleared nor shortened.
C11_AppendOnly ==
    [][IsPrefix(errors, errors') /\ IsPrefix(warnings, warnings')]_vars

\* A diagnostic appended after the one the caller's array already held.
C11_Witness ==
    /\ pc = "idle" /\ IsToken(result)
    /\ Len(errors) >= 2 /\ errors[1] = EarlierDiagnostic
    /\ Len(NewErrors) >= 1
    /\ warnings = <<EarlierDiagnostic>>

\* The offset after the longest run of underscores, letters and digits
\* from offset i; the offset of the first code unit from i on that is no
\* whitespace (the input length: there is none).
RECURSIVE RunEnd(_)
RunEnd(i) ==
    IF i < Len(input)
         /\ (input[i + 1] = 95 \/ isLetter(input[i + 1]) \/ isDigit(input[i + 1]))
    THEN RunEnd(i + 1)
    ELSE i
RECURSIVE NextNonWhitespace(_)
NextNonWhitespace(i) ==
    IF i < Len(input) /\ isWhitespace(input[i + 1])
    THEN NextNonWhitespace(i + 1)
    ELSE i

\* C12: an identifier token is a Function when the next code unit after
\* its run that is no whitespace is `(`, whether or not its name is a
\* reserved constant; otherwise a Constant when its text is a reserved
\* constant; otherwise a Variable; its value is the text of the run.
C12_IdentKind ==
    (pc = "idle" /\ result.type \in {"Function", "Constant", "Variable"}) =>
        LET text == Slice(result.start.pos, RunEnd(result.start.pos))
            next == NextNonWhitespace(RunEnd(result.start.pos))
        IN  /\ result.value = StrVal(text)
            /\ result.type =
                  IF next < Len(input) /\ input[next + 1] = 40
                  THEN "Function"
                  ELSE IF text \in CONSTANTS_ THEN "Constant"
                  ELSE "Variable"

\* `pi (`: the reserved constant pi, before whitespace and `(`, returned
\* as a Function.
C12_Witness ==
    /\ pc = "idle" /\ result.type = "Function"
    /\ result.value = StrVal(<<112, 105>>)
    /\ GetCharAt(result.start.pos + 2) = 32
    /\ GetCharAt(result.start.pos + 3) = 40

\* The offset after the run of comment lines whose first starts at offset
\* i: after the line feed of the last of them, or the end of the input
\* when the last has none.
RECURSIVE CommentRunEnd(_)
CommentRunEnd(i) ==
    LET lf == IndexOfLF(i)
    IN  IF lf = -1 THEN Len(input)
        ELSE IF GetCharAt(lf + 1) = 47 /\ GetCharAt(lf + 2) = 47
        THEN CommentRunEnd(lf + 1)
        ELSE lf + 1

\* C13: a run of comment lines, each starting with `//` right after the
\* line feed of the one before, is returned as one Comment token spanning
\* all of them, without a diagnostic when allowComments is true and with
\* one UnexpectedComment diagnostic when it is false.
C13_CommentRun ==
    (pc = "idle" /\ result.type = "Comment") =>
        /\ result.end.pos = CommentRunEnd(result.start.pos)
        /\ result.value = StrVal(Slice(result.start.pos, result.end.pos))
        /\ pos = result.end.pos
        /\ CountKind(NewErrors, "UnexpectedComment") =
              IF allowComments THEN 0 ELSE 1

\* C14: when 0x or 0X is not followed at once by a hex digit (or the input
\* ends there), a HexNumber token with no value and the error flag set is
\* returned, one ExpectedHexDigit diagnostic is appended, and the cursor
\* is left right after the two code units of the prefix.
C14_MissingHexDigit ==
    (pc = "idle" /\ result.type \in {"Number", "HexNumber"}
        /\ GetCharAt(result.start.pos) = 48
        /\ GetCharAt(result.start.pos + 1) \in {120, 88}
        /\ ~isHexDigit(GetCharAt(result.start.pos + 2))) =>
        /\ result.type = "HexNumber"
        /\ result.value = NoValue
        /\ result.hasError
        /\ CountKind(NewErrors, "ExpectedHexDigit") = 1
        /\ result.end.pos = result.start.pos + 2
        /\ pos = result.start.pos + 2

\* `0x` and then `x`: the token over the prefix, the cursor on the second
\* `x`.
C14_Witness ==
    /\ pc = "idle" /\ result.type = "HexNumber" /\ result.hasError
    /\ GetCharAt(result.start.pos + 2) = 120
    /\ pos = result.start.pos + 2
    /\ CountKind(NewErrors, "ExpectedHexDigit") = 1

\* C15: when findScope leaves the stack empty, findVariableNames returns
\* the empty sequence (and no fault in its place).
C15_NoScope ==
    (found # NoNames /\ foundStack = << >>) => found = << >>

\* A call that found no enclosing declaration, on a tree that holds a
\* compound assignment.
C15_Witness ==
    /\ found = << >> /\ foundStack = << >>
    /\ root.body.body = ExampleBody

RECURSIVE Subnodes(_)
Subnodes(node) ==
    CASE node.kind = "null" -> {}
      [] node.kind = "BinaryExpression" ->
            {node} \cup Subnodes(node.lvalue) \cup Subnodes(node.rvalue)
      [] node.kind \in {"ParenthesisedExpression", "UnaryExpression"} ->
            {node} \cup Subnodes(node.value)
      [] node.kind \in {"FunctionExpression", "MapLiteral", "ListLiteral"} ->
            {node} \cup UNION { Subnodes(node.params[i]) :
                                    i \in DOMAIN node.params }
      [] OTHER -> {node}

\* An assignment (=, += or <>) whose lvalue, parentheses unwrapped, is a
\* Variable.
IsPlainAssignment(node) ==
    /\ IsAssignment(node)
    /\ resolveParenthesised(node.lvalue).kind = "Variable"

\* C17: at an assignment whose unwrapped lvalue is a Variable the walk
\* records nothing and goes into neither side: neither the assignment
\* nor any node under it, a compound assignment in its right-hand side
\* included, is in the result.
C17_PlainAssignmentSkipped ==
    walked # NoNames =>
        \A a \in Subnodes(Scope) :
            IsPlainAssignment(a) =>
                \A n \in Subnodes(a) : ~InSeq(n, walked)

\* x = (l = y) with l a list literal: nothing is recorded.
C17_Witness ==
    /\ walked = << >>
    /\ IsPlainAssignment(Scope)
    /\ IsAssignment(Scope.rvalue)
    /\ Scope.rvalue.lvalue.kind = "ListLiteral"

\* An assignment whose lvalue, parentheses unwrapped, is no Variable.
IsCompoundAssignment(node) ==
    IsAssignment(node) /\ ~IsPlainAssignment(node)

\* The nodes the walk from a node visits: the node; from an assignment to
\* a compound lvalue its right-hand side; from an assignment to a plain
\* variable nothing; from another binary expression both operands; the
\* value of a parenthesised or unary expression; the params of a function
\* expression, map literal or list literal.
RECURSIVE Visited(_)
Visited(node) ==
    CASE node.kind = "null" -> {}
      [] node.kind = "BinaryExpression" ->
            IF IsCompoundAssignment(node)
            THEN {node} \cup Visited(node.rvalue)
            ELSE IF IsPlainAssignment(node) THEN {node}
            ELSE {node} \cup Visited(node.lvalue) \cup Visited(node.rvalue)
      [] node.kind \in {"ParenthesisedExpression", "UnaryExpression"} ->
            {node} \cup Visited(node.value)
      [] node.kind \in {"FunctionExpression", "MapLiteral", "ListLiteral"} ->
            {node} \cup UNION { Visited(node.params[i]) :
                                    i \in DOMAIN node.params }
      [] OTHER -> {node}

\* Whether the node of id p comes before the node of id q in pre-order,
\* left to right: p is an ancestor of q, or where the paths part p takes
\* the earlier child.
PreOrderBefore(p, q) ==
    \/ Len(p) < Len(q) /\ SubSeq(q, 1, Len(p)) = p
    \/ \E k \in 1..Len(p) :
            /\ k <= Len(q)
            /\ SubSeq(p, 1, k - 1) = SubSeq(q, 1, k - 1)
            /\ p[k] < q[k]

\* C18: the result of the walk holds assignments (=, += or <>) whose
\* unwrapped lvalue is no Variable and nothing else, every such node the
\* walk visits once, in pre-order from left to right: a recorded
\* assignment before those of its right-hand side, and what is found in
\* the left operand of another binary operator before what is found in
\* the right.
C18_PreOrder ==
    walked # NoNames =>
        /\ \A i \in DOMAIN walked : IsCompoundAssignment(walked[i])
        /\ { walked[i] : i \in DOMAIN walked } =
              { n \in Visited(Scope) : IsCompoundAssignment(n) }
        /\ \A i, j \in DOMAIN walked :
              i < j => PreOrderBefore(walked[i].id, walked[j].id)

\* Two recorded, the assignment that is the left operand of `;` before
\* the one that is its right operand.
C18_Witness ==
    /\ Len(walked) = 2
    /\ Scope.kind = "BinaryExpression" /\ Scope.operator = ";"
    /\ walked = <<Scope.lvalue, Scope.rvalue>>

\* The offsets below p of the line feeds of the input; whether a position
\* has the row and the column of its offset: as many rows as line feeds
\* before it, as many columns as code units since the last of them (or
\* since the start of the input).
LineFeedsBefore(p) == { i \in 0..(p - 1) : GetCharAt(i) = 10 }
RowColOfOffset(position) ==
    LET lfs == LineFeedsBefore(position.pos)
        lineStart == IF lfs = {} THEN 0
                     ELSE 1 + CHOOSE i \in lfs : \A j \in lfs : j <= i
    IN  /\ position.row = Cardinality(lfs)
        /\ position.col = position.pos - lineStart

\* C19: whenever nextToken returns, the row of the cursor is the number of
\* line feeds before its offset and its col the number of code units
\* since the last of them, and so for the start and the end of every
\* token returned, of whatever kind.
C19_RowCol ==
    pc = "idle" =>
        /\ RowColOfOffset(Position(pos, row, col))
        /\ IsToken(result) =>
              RowColOfOffset(result.start) /\ RowColOfOffset(result.end)

\* C20: the end-of-input sentinel is absorbing: once a call has returned
\* it, every later call returns it too and changes neither the cursor
\* (offset, row, col) nor the diagnostic sequences.
C20_SentinelAbsorbing ==
    [][(pc = "idle" /\ result = Null) =>
            /\ pc' = "idle" /\ result' = Null
            /\ pos' = pos /\ row' = row /\ col' = col
            /\ errors' = errors /\ warnings' = warnings]_vars

\* On the input of one space the first call enters at offset 0 and
\* returns the sentinel; this is a later call, entered at offset 1.
C20_Witness ==
    /\ input = <<32>>
    /\ pc = "idle" /\ result = Null
    /\ entry.pos = 1 /\ pos = 1

\* A sequence of diagnostics without its UnexpectedComment and
\* UnexpectedNewLineMarker entries.
WithoutOptionDiagnostics(seq) ==
    SelectSeq(seq, LAMBDA d :
        d.kind \notin {"UnexpectedComment", "UnexpectedNewLineMarker"})

\* C21: allowComments and allowNewLineMarkers bear on the diagnostics
\* alone: two Tokenizers on one input that differ in these options are
\* returned the same tokens (kind, span, value, error flag) call after
\* call and pass through the same cursor states, and their errors
\* sequences are the same but for the UnexpectedComment and
\* UnexpectedNewLineMarker entries.
C21_OptionsOnlyDiagnostics ==
    /\ twin.pos = pos /\ twin.row = row /\ twin.col = col
    /\ twin.pc = pc
    /\ twin.result = result
    /\ WithoutOptionDiagnostics(twin.errors) =
          WithoutOptionDiagnostics(errors)

\* `$` and a comment line, returned to both: the Tokenizer that allows
\* neither has logged both, the one that allows both nothing.
C21_Witness ==
    /\ pc = "idle" /\ result.type = "Comment" /\ twin.result = result
    /\ GetCharAt(0) = 36
    /\ allowComments /\ allowNewLineMarkers
    /\ ~twin.allowComments /\ ~twin.allowNewLineMarkers
    /\ errors \in OptionsDiagnostics
    /\ CountKind(twin.errors, "UnexpectedComment") = 1
    /\ CountKind(twin.errors, "UnexpectedNewLineMarker") = 1
    /\ pos = Len(input)

====
